---------------------------- MODULE Spec2Model ----------------------------
(***************************************************************************)
(* The interactive Pacman session of play_pacman_ui.py (function main) as  *)
(* a state machine.  The environment (jaxatari: reset, step, render), the  *)
(* event queue (pygame.event.get) and the keyboard poll (get_human_action) *)
(* are external: their results are drawn nondeterministically from small   *)
(* sets.  Every value returned by reset or step is tagged with the index   *)
(* of the call that returned it (1, 2, 3, ...), so that two states are     *)
(* equal exactly when they come from the same call.                        *)
(*                                                                         *)
(* Locals of main that are not yet bound hold 0 / FALSE / <<>> here.       *)
(* History variables record the calls that returned; a call that raises    *)
(* is recorded in `raised` only.                                           *)
(*                                                                         *)
(* The scripted session of run_pacman.py (function main) is a second       *)
(* state machine over the s_ variables, with its own specification.        *)
(***************************************************************************)
EXTENDS Integers, Sequences, FiniteSets, TLC

(* ------------------------------ bounds -------------------------------- *)

\* Number of values the environment returns (reset and step calls) in a run.
MaxCalls == 5

\* Number of events one pygame.event.get() hands to the for loop.
MaxEvents == 2

\* Rewards a step may return (float(reward), here small whole numbers).
Rewards == {0, 5}

\* Values get_human_action may return: the JAXAtariAction constants
\* NOOP=0, FIRE=1, UP=2, RIGHT=3, LEFT=4, DOWN=5, a diagonal (6), and a
\* value outside the vocabulary (99).
SourceActions == {0, 1, 2, 3, 4, 5, 6, 99}

(* ------------------------- program constants -------------------------- *)

\* jrandom.PRNGKey(42)
MasterSeed == 42

\* jrandom.PRNGKey(seed): the threefry key of a 32-bit seed is the pair (0, seed).
PRNGKey(seed) == <<0, seed>>

master_key == PRNGKey(MasterSeed)

\* jrandom.fold_in(key, data): the key derived from (key, data), kept as the
\* term it is computed from (for a fixed key the threefry block function is
\* one-to-one in data, for data within uint32; the runs here stay far below).
fold_in(key, data) == <<key, data>>

\* action_map.get(action_int, 0) with the dict of lines 120-126.
action_map_get_nodefault(action_int) ==
    CASE action_int = 0 -> 0
      [] action_int = 2 -> 1
      [] action_int = 3 -> 2
      [] action_int = 4 -> 3
      [] action_int = 5 -> 4
      [] OTHER -> action_int

action_map_get(action_int) ==
    CASE action_int = 0 -> 0
      [] action_int = 2 -> 1
      [] action_int = 3 -> 2
      [] action_int = 4 -> 3
      [] action_int = 5 -> 4
      [] OTHER -> 0

(* ------------------------------ state --------------------------------- *)

VARIABLES
    pc,             \* position of main
    display,        \* "none", "open" (pygame.init), "closed" (pygame.quit)
    reset_counter,  \* local reset_counter
    obs,            \* local obs: tag of the call that returned it
    state,          \* local state: tag of the call that returned it
    running,        \* local running
    pause,          \* local pause
    total_return,   \* local total_return
    action,         \* local action (int(action) = action_int)
    pacman_action,  \* local pacman_action
    reward,         \* local reward of the last step
    done,           \* local done of the last step
    evCount,        \* events of the current pygame.event.get() handled so far
    nCalls,         \* history: values returned by reset/step so far = tag of the latest
    seedLog,        \* history: the keys given to jitted_reset, in order
    lastCall,       \* history: the most recent environment call
    rendered,       \* history: the states given to jitted_render so far
    doneStates,     \* history: the states returned by a step with done = True
    nSteps,         \* history: number of jitted_step calls
    nActions,       \* history: number of get_human_action calls
    prevReturn,     \* history: total_return before the last step's reward was added
    reports,        \* history: the "Total Reward" values printed at Game Over
    exit_status,    \* exit status of the process, -1 while it runs
    raised,         \* history: the call whose exception ended or failed the run
    iterRenders,    \* history: render calls of the current loop iteration
    pauseAtPoll,    \* history: pause when the current iteration began
    pToggles,       \* history: K_p events handled in the current iteration
    epCount,        \* history: per reward, the steps since the last reset that returned it
    s_pc,           \* run_pacman.py: position of main
    s_step,         \* run_pacman.py: local step (loop index)
    s_action,       \* run_pacman.py: local action
    s_state,        \* run_pacman.py: local state, tag of the call that returned it
    s_total,        \* run_pacman.py: local total_reward
    s_done,         \* run_pacman.py: local done
    s_exit,         \* run_pacman.py: exit status of the process, -1 while it runs
    s_raised,       \* run_pacman.py history: the call that failed
    s_nResets,      \* run_pacman.py history: number of env.reset calls
    s_nSteps,       \* run_pacman.py history: number of env.step calls
    s_actionLog,    \* run_pacman.py history: the actions given to env.step, in order
    s_stepArgs,     \* run_pacman.py history: the states given to env.step
    s_doneTags,     \* run_pacman.py history: the states returned with done = True
    s_count,        \* run_pacman.py history: per reward, the steps that returned it
    s_printed       \* run_pacman.py history: the "Total reward" values printed

vars == <<pc, display, reset_counter, obs, state, running, pause, total_return,
          action, pacman_action, reward, done, evCount, nCalls, seedLog,
          lastCall, rendered, doneStates, nSteps, nActions, prevReturn, reports,
          exit_status, raised, iterRenders, pauseAtPoll, pToggles, epCount,
          s_pc, s_step, s_action, s_state, s_total, s_done, s_exit, s_raised,
          s_nResets, s_nSteps, s_actionLog, s_stepArgs, s_doneTags, s_count,
          s_printed>>

locals == <<reset_counter, obs, state, running, pause, total_return,
            action, pacman_action, reward, done>>

history == <<nCalls, seedLog, lastCall, rendered, doneStates, nSteps,
             nActions, prevReturn, reports>>

outcome == <<exit_status, raised>>

iteration == <<iterRenders, pauseAtPoll, pToggles>>

\* The variables of the session of play_pacman_ui.py.
uiVars == <<pc, display, locals, evCount, history, outcome, iteration, epCount>>

\* The variables of the scripted session of run_pacman.py.
script == <<s_pc, s_step, s_action, s_state, s_total, s_done, s_exit, s_raised,
            s_nResets, s_nSteps, s_actionLog, s_stepArgs, s_doneTags, s_count,
            s_printed>>

\* The sum of the rewards counted in count, over the rewards in S.
RECURSIVE WeightedSum(_, _)
WeightedSum(count, S) ==
    IF S = {}
      THEN 0
      ELSE LET r == CHOOSE x \in S : TRUE
           IN  r * count[r] + WeightedSum(count, S \ {r})

\* No step counted yet for any reward.
NoRewards == [r \in Rewards |-> 0]

Init ==
    /\ pc = "make"
    /\ display = "none"
    /\ reset_counter = 0
    /\ obs = 0
    /\ state = 0
    /\ running = FALSE
    /\ pause = FALSE
    /\ total_return = 0
    /\ action = 0
    /\ pacman_action = 0
    /\ reward = 0
    /\ done = FALSE
    /\ evCount = 0
    /\ nCalls = 0
    /\ seedLog = <<>>
    /\ lastCall = [op |-> "none", arg |-> 0, latest |-> 0]
    /\ rendered = {}
    /\ doneStates = {}
    /\ nSteps = 0
    /\ nActions = 0
    /\ prevReturn = 0
    /\ reports = <<>>
    /\ exit_status = -1
    /\ raised = "none"
    /\ iterRenders = 0
    /\ pauseAtPoll = FALSE
    /\ pToggles = 0
    /\ epCount = NoRewards
    /\ s_pc = "list_games"
    /\ s_step = 0
    /\ s_action = 0
    /\ s_state = 0
    /\ s_total = 0
    /\ s_done = FALSE
    /\ s_exit = -1
    /\ s_raised = "none"
    /\ s_nResets = 0
    /\ s_nSteps = 0
    /\ s_actionLog = <<>>
    /\ s_stepArgs = {}
    /\ s_doneTags = {}
    /\ s_count = NoRewards
    /\ s_printed = <<>>

(* ----------------------- the environment calls ------------------------ *)

\* The record of a jitted_reset(reset_key) call made when `latest` was the
\* tag of the most recent value returned by reset or step.
ResetCall(reset_key, latest) == [op |-> "reset", arg |-> reset_key, latest |-> latest]

\* The record of a jitted_step(s, a) call.
StepCall(s, latest) == [op |-> "step", arg |-> s, latest |-> latest]

\* The record of a jitted_render(s) call.
RenderCall(s, latest) == [op |-> "render", arg |-> s, latest |-> latest]

(* ------------------------------ set-up -------------------------------- *)

\* Lines 34-36: env = jaxatari.make("pacman") returns.
MakeEnv ==
    /\ pc = "make"
    /\ pc' = "pygame_init"
    /\ UNCHANGED <<display, locals, evCount, history, outcome, iteration,
                   epCount, script>>

\* Lines 37-41 and 156-157: jaxatari.make raises; the error is printed and main
\* returns, so the process ends normally, with status 0.
MakeEnvFails ==
    /\ pc = "make"
    /\ raised' = "make"
    /\ pc' = "returned"
    /\ exit_status' = 0
    /\ UNCHANGED <<display, locals, evCount, history, iteration, epCount, script>>

\* Lines 43-45: pygame.init().
PygameInit ==
    /\ pc = "pygame_init"
    /\ display' = "open"
    /\ pc' = "start"
    /\ UNCHANGED <<locals, evCount, history>>
    /\ UNCHANGED <<outcome, iteration, epCount, script>>

\* Lines 47-73, with the counter left as it was before the reset.
Start_NoIncrement ==
    /\ pc = "start"
    /\ nCalls' = nCalls + 1
    /\ seedLog' = Append(seedLog, fold_in(master_key, 0))
    /\ obs' = nCalls + 1
    /\ state' = nCalls + 1
    /\ reset_counter' = 0
    /\ rendered' = rendered \cup {state'}
    /\ lastCall' = RenderCall(state', nCalls')
    /\ running' = TRUE
    /\ pause' = FALSE
    /\ total_return' = 0
    /\ pc' = "while"
    /\ UNCHANGED <<display, action, pacman_action, reward, done, evCount,
                   doneStates, nSteps, nActions, prevReturn, reports>>
    /\ epCount' = NoRewards
    /\ UNCHANGED <<outcome, iteration, script>>

\* Lines 47-73: reset_counter = 0; reset with fold_in(master_key, 0);
\* reset_counter += 1; render the state for its shape; running, pause,
\* total_return.
Start ==
    /\ pc = "start"
    /\ nCalls' = nCalls + 1
    /\ seedLog' = Append(seedLog, fold_in(master_key, 0))
    /\ obs' = nCalls + 1
    /\ state' = nCalls + 1
    /\ reset_counter' = 0 + 1
    /\ rendered' = rendered \cup {state'}
    /\ lastCall' = RenderCall(state', nCalls')
    /\ running' = TRUE
    /\ pause' = FALSE
    /\ total_return' = 0
    /\ pc' = "while"
    /\ UNCHANGED <<display, action, pacman_action, reward, done, evCount,
                   doneStates, nSteps, nActions, prevReturn, reports>>
    /\ epCount' = NoRewards
    /\ UNCHANGED <<outcome, iteration, script>>

(* ----------------------------- main loop ------------------------------ *)

\* Line 79 with the loop kept alive while paused.
WhileTest_PausedGoesOn ==
    /\ pc = "while"
    /\ IF running \/ pause
         THEN /\ pc' = "events"
              /\ evCount' = 0
              /\ iterRenders' = 0
              /\ pauseAtPoll' = pause
              /\ pToggles' = 0
         ELSE /\ pc' = "quit"
              /\ UNCHANGED <<evCount, iteration>>
    /\ UNCHANGED <<display, locals, history, outcome, epCount, script>>

\* Line 79: while running; line 81 calls pygame.event.get() when it is true,
\* line 153 is reached when it is false.
WhileTest ==
    /\ pc = "while"
    /\ IF running
         THEN /\ pc' = "events"
              /\ evCount' = 0
              /\ iterRenders' = 0
              /\ pauseAtPoll' = pause
              /\ pToggles' = 0
         ELSE /\ pc' = "quit"
              /\ UNCHANGED <<evCount, iteration>>
    /\ UNCHANGED <<display, locals, history, outcome, epCount, script>>

\* Lines 82-84: a pygame.QUIT event; `continue` goes on with the for loop.
EvQuit ==
    /\ pc = "events"
    /\ evCount < MaxEvents
    /\ evCount' = evCount + 1
    /\ running' = FALSE
    /\ UNCHANGED <<pc, display, reset_counter, obs, state, pause, total_return,
                   action, pacman_action, reward, done, history>>
    /\ UNCHANGED <<outcome, iteration, epCount, script>>

\* Lines 85-88: KEYDOWN K_ESCAPE; `continue` goes on with the for loop.
EvEscape ==
    /\ pc = "events"
    /\ evCount < MaxEvents
    /\ evCount' = evCount + 1
    /\ running' = FALSE
    /\ UNCHANGED <<pc, display, reset_counter, obs, state, pause, total_return,
                   action, pacman_action, reward, done, history>>
    /\ UNCHANGED <<outcome, iteration, epCount, script>>

\* Lines 89-91 with pause set instead of flipped.
EvPauseKey_Sets ==
    /\ pc = "events"
    /\ evCount < MaxEvents
    /\ evCount' = evCount + 1
    /\ pause' = TRUE
    /\ UNCHANGED <<pc, display, reset_counter, obs, state, running, total_return,
                   action, pacman_action, reward, done, history>>
    /\ pToggles' = pToggles + 1
    /\ UNCHANGED <<outcome, iterRenders, pauseAtPoll, epCount, script>>

\* Lines 89-91: KEYDOWN K_p.
EvPauseKey ==
    /\ pc = "events"
    /\ evCount < MaxEvents
    /\ evCount' = evCount + 1
    /\ pause' = ~pause
    /\ UNCHANGED <<pc, display, reset_counter, obs, state, running, total_return,
                   action, pacman_action, reward, done, history>>
    /\ pToggles' = pToggles + 1
    /\ UNCHANGED <<outcome, iterRenders, pauseAtPoll, epCount, script>>

\* Lines 92-97 without reset_counter += 1.
EvResetKey_NoIncrement ==
    /\ pc = "events"
    /\ evCount < MaxEvents
    /\ nCalls < MaxCalls
    /\ evCount' = evCount + 1
    /\ nCalls' = nCalls + 1
    /\ seedLog' = Append(seedLog, fold_in(master_key, reset_counter))
    /\ lastCall' = ResetCall(fold_in(master_key, reset_counter), nCalls)
    /\ obs' = nCalls + 1
    /\ state' = nCalls + 1
    /\ total_return' = 0
    /\ UNCHANGED <<pc, display, reset_counter, running, pause, action, pacman_action,
                   reward, done, rendered, doneStates, nSteps, nActions,
                   prevReturn, reports>>
    /\ epCount' = NoRewards
    /\ UNCHANGED <<outcome, iteration, script>>

\* Lines 92-97 with the session resumed by the reset.
EvResetKey_Unpauses ==
    /\ pc = "events"
    /\ evCount < MaxEvents
    /\ nCalls < MaxCalls
    /\ evCount' = evCount + 1
    /\ nCalls' = nCalls + 1
    /\ seedLog' = Append(seedLog, fold_in(master_key, reset_counter))
    /\ lastCall' = ResetCall(fold_in(master_key, reset_counter), nCalls)
    /\ obs' = nCalls + 1
    /\ state' = nCalls + 1
    /\ reset_counter' = reset_counter + 1
    /\ total_return' = 0
    /\ pause' = FALSE
    /\ UNCHANGED <<pc, display, running, action, pacman_action,
                   reward, done, rendered, doneStates, nSteps, nActions,
                   prevReturn, reports>>
    /\ epCount' = NoRewards
    /\ UNCHANGED <<outcome, iteration, script>>

\* Lines 92-97: KEYDOWN K_r: reset with fold_in(master_key, reset_counter),
\* reset_counter += 1, total_return = 0.0.
EvResetKey ==
    /\ pc = "events"
    /\ evCount < MaxEvents
    /\ nCalls < MaxCalls
    /\ evCount' = evCount + 1
    /\ nCalls' = nCalls + 1
    /\ seedLog' = Append(seedLog, fold_in(master_key, reset_counter))
    /\ lastCall' = ResetCall(fold_in(master_key, reset_counter), nCalls)
    /\ obs' = nCalls + 1
    /\ state' = nCalls + 1
    /\ reset_counter' = reset_counter + 1
    /\ total_return' = 0
    /\ UNCHANGED <<pc, display, running, pause, action, pacman_action,
                   reward, done, rendered, doneStates, nSteps, nActions,
                   prevReturn, reports>>
    /\ epCount' = NoRewards
    /\ UNCHANGED <<outcome, iteration, script>>

\* Lines 81-97: any other event (another key, mouse, ...) matches no branch.
EvOther ==
    /\ pc = "events"
    /\ evCount < MaxEvents
    /\ evCount' = evCount + 1
    /\ UNCHANGED <<pc, display, locals, history>>
    /\ UNCHANGED <<outcome, iteration, epCount, script>>

\* Line 81: the events of this pygame.event.get() are exhausted.
EventsDone ==
    /\ pc = "events"
    /\ pc' = "pause_check"
    /\ UNCHANGED <<display, locals, evCount, history>>
    /\ UNCHANGED <<outcome, iteration, epCount, script>>

\* Lines 99-104 with the keyboard polled although paused.
PausedRender_Polls ==
    /\ pc = "pause_check"
    /\ pause
    /\ rendered' = rendered \cup {state}
    /\ lastCall' = RenderCall(state, nCalls)
    /\ nActions' = nActions + 1
    /\ pc' = "while"
    /\ UNCHANGED <<display, locals, evCount, nCalls, seedLog, doneStates,
                   nSteps, prevReturn, reports>>
    /\ iterRenders' = iterRenders + 1
    /\ UNCHANGED <<outcome, pauseAtPoll, pToggles, epCount, script>>

\* Lines 99-104: if pause: render state, update_pygame, tick, continue.
PausedRender ==
    /\ pc = "pause_check"
    /\ pause
    /\ rendered' = rendered \cup {state}
    /\ lastCall' = RenderCall(state, nCalls)
    /\ pc' = "while"
    /\ UNCHANGED <<display, locals, evCount, nCalls, seedLog, doneStates,
                   nSteps, nActions, prevReturn, reports>>
    /\ iterRenders' = iterRenders + 1
    /\ UNCHANGED <<outcome, pauseAtPoll, pToggles, epCount, script>>

\* Lines 106-108: action = get_human_action() returns a value.
GetAction ==
    /\ pc = "pause_check"
    /\ ~pause
    /\ nCalls + 2 <= MaxCalls
    /\ \E a \in SourceActions : action' = a
    /\ nActions' = nActions + 1
    /\ pc' = "step"
    /\ UNCHANGED <<display, reset_counter, obs, state, running, pause, total_return,
                   pacman_action, reward, done, evCount, nCalls, seedLog,
                   lastCall, rendered, doneStates, nSteps, prevReturn, reports>>
    /\ UNCHANGED <<outcome, iteration, epCount, script>>

\* Lines 107-111: get_human_action() raises SystemExit: running = False; continue.
GetActionQuit ==
    /\ pc = "pause_check"
    /\ ~pause
    /\ nActions' = nActions + 1
    /\ running' = FALSE
    /\ pc' = "while"
    /\ UNCHANGED <<display, reset_counter, obs, state, pause, total_return,
                   action, pacman_action, reward, done, evCount, nCalls, seedLog,
                   lastCall, rendered, doneStates, nSteps, prevReturn, reports>>
    /\ UNCHANGED <<outcome, iteration, epCount, script>>

\* Lines 113-131 with total_return = float(reward) instead of +=.
Step_Overwrites ==
    /\ pc = "step"
    /\ pacman_action' = action_map_get(action)
    /\ \E r \in Rewards, d \in BOOLEAN :
         /\ reward' = r
         /\ done' = d
         /\ doneStates' = IF d THEN doneStates \cup {nCalls + 1} ELSE doneStates
    /\ nCalls' = nCalls + 1
    /\ nSteps' = nSteps + 1
    /\ lastCall' = StepCall(state, nCalls)
    /\ obs' = nCalls + 1
    /\ state' = nCalls + 1
    /\ prevReturn' = total_return
    /\ total_return' = reward'
    /\ pc' = "done_check"
    /\ UNCHANGED <<display, reset_counter, running, pause, action, evCount,
                   seedLog, rendered, nActions, reports>>
    /\ epCount' = [epCount EXCEPT ![reward'] = @ + 1]
    /\ UNCHANGED <<outcome, iteration, script>>

\* Lines 113-138: pacman_action = action_map.get(int(action), 0);
\* obs, state, reward, done, info = jitted_step(state, pacman_action);
\* total_return += float(reward).
Step ==
    /\ pc = "step"
    /\ pacman_action' = action_map_get(action)
    /\ \E r \in Rewards, d \in BOOLEAN :
         /\ reward' = r
         /\ done' = d
         /\ doneStates' = IF d THEN doneStates \cup {nCalls + 1} ELSE doneStates
    /\ nCalls' = nCalls + 1
    /\ nSteps' = nSteps + 1
    /\ lastCall' = StepCall(state, nCalls)
    /\ obs' = nCalls + 1
    /\ state' = nCalls + 1
    /\ prevReturn' = total_return
    /\ total_return' = total_return + reward'
    /\ pc' = "done_check"
    /\ UNCHANGED <<display, reset_counter, running, pause, action, evCount,
                   seedLog, rendered, nActions, reports>>
    /\ epCount' = [epCount EXCEPT ![reward'] = @ + 1]
    /\ UNCHANGED <<outcome, iteration, script>>

\* Lines 141-146 with total_return zeroed before it is printed.
DoneReset_ZeroFirst ==
    /\ pc = "done_check"
    /\ done
    /\ reports' = Append(reports, 0)
    /\ total_return' = 0
    /\ nCalls' = nCalls + 1
    /\ seedLog' = Append(seedLog, fold_in(master_key, reset_counter))
    /\ lastCall' = ResetCall(fold_in(master_key, reset_counter), nCalls)
    /\ obs' = nCalls + 1
    /\ state' = nCalls + 1
    /\ reset_counter' = reset_counter + 1
    /\ pc' = "render"
    /\ UNCHANGED <<display, running, pause, action, pacman_action, reward, done,
                   evCount, rendered, doneStates, nSteps, nActions, prevReturn>>
    /\ epCount' = NoRewards
    /\ UNCHANGED <<outcome, iteration, script>>

\* Lines 141-146 with total_return left as it is.
DoneReset_KeepsReturn ==
    /\ pc = "done_check"
    /\ done
    /\ reports' = Append(reports, total_return)
    /\ nCalls' = nCalls + 1
    /\ seedLog' = Append(seedLog, fold_in(master_key, reset_counter))
    /\ lastCall' = ResetCall(fold_in(master_key, reset_counter), nCalls)
    /\ obs' = nCalls + 1
    /\ state' = nCalls + 1
    /\ reset_counter' = reset_counter + 1
    /\ pc' = "render"
    /\ UNCHANGED <<display, running, pause, total_return, action, pacman_action,
                   reward, done, evCount, rendered, doneStates, nSteps, nActions,
                   prevReturn>>
    /\ epCount' = NoRewards
    /\ UNCHANGED <<outcome, iteration, script>>

\* Lines 141-146 with the state returned by the reset dropped (obs, _ = ...).
DoneReset_DropsState ==
    /\ pc = "done_check"
    /\ done
    /\ reports' = Append(reports, total_return)
    /\ total_return' = 0
    /\ nCalls' = nCalls + 1
    /\ seedLog' = Append(seedLog, fold_in(master_key, reset_counter))
    /\ lastCall' = ResetCall(fold_in(master_key, reset_counter), nCalls)
    /\ obs' = nCalls + 1
    /\ reset_counter' = reset_counter + 1
    /\ pc' = "render"
    /\ UNCHANGED <<display, state, running, pause, action, pacman_action, reward,
                   done, evCount, rendered, doneStates, nSteps, nActions, prevReturn>>
    /\ epCount' = NoRewards
    /\ UNCHANGED <<outcome, iteration, script>>

\* Lines 141-146: if done: print the total, total_return = 0.0, reset with
\* fold_in(master_key, reset_counter), reset_counter += 1.
DoneReset ==
    /\ pc = "done_check"
    /\ done
    /\ reports' = Append(reports, total_return)
    /\ total_return' = 0
    /\ nCalls' = nCalls + 1
    /\ seedLog' = Append(seedLog, fold_in(master_key, reset_counter))
    /\ lastCall' = ResetCall(fold_in(master_key, reset_counter), nCalls)
    /\ obs' = nCalls + 1
    /\ state' = nCalls + 1
    /\ reset_counter' = reset_counter + 1
    /\ pc' = "render"
    /\ UNCHANGED <<display, running, pause, action, pacman_action, reward, done,
                   evCount, rendered, doneStates, nSteps, nActions, prevReturn>>
    /\ epCount' = NoRewards
    /\ UNCHANGED <<outcome, iteration, script>>

\* Line 141: done is False.
NotDone ==
    /\ pc = "done_check"
    /\ ~done
    /\ pc' = "render"
    /\ UNCHANGED <<display, locals, evCount, history>>
    /\ UNCHANGED <<outcome, iteration, epCount, script>>

\* Lines 148-151: render state, update_pygame, tick.
Render ==
    /\ pc = "render"
    /\ rendered' = rendered \cup {state}
    /\ lastCall' = RenderCall(state, nCalls)
    /\ pc' = "while"
    /\ UNCHANGED <<display, locals, evCount, nCalls, seedLog, doneStates,
                   nSteps, nActions, prevReturn, reports>>
    /\ iterRenders' = iterRenders + 1
    /\ UNCHANGED <<outcome, pauseAtPoll, pToggles, epCount, script>>

\* Lines 153-154: pygame.quit().
PygameQuit ==
    /\ pc = "quit"
    /\ display' = "closed"
    /\ pc' = "returned"
    /\ UNCHANGED <<locals, evCount, history>>
    /\ exit_status' = 0
    /\ UNCHANGED <<raised, iteration, epCount, script>>

(* ------------------ exceptions that leave main (lines 167-171) --------- *)

\* Lines 47-67 and 167-171: the initial reset (line 56) raises before anything
\* is assigned, or the first render or the window creation (lines 60-66)
\* raises after the reset; the handler of line 167 ends the process with
\* sys.exit(1).  pygame.quit (line 153) is not reached.
StartRaises ==
    /\ pc = "start"
    /\ \/ /\ raised' = "reset"
          /\ UNCHANGED <<reset_counter, obs, state, nCalls, seedLog>>
       \/ /\ raised' = "render"
          /\ nCalls' = nCalls + 1
          /\ seedLog' = Append(seedLog, fold_in(master_key, 0))
          /\ obs' = nCalls + 1
          /\ state' = nCalls + 1
          /\ reset_counter' = 0 + 1
    /\ pc' = "exited"
    /\ exit_status' = 1
    /\ UNCHANGED <<display, running, pause, total_return, action, pacman_action,
                   reward, done, evCount, lastCall, rendered, doneStates, nSteps,
                   nActions, prevReturn, reports, iteration, epCount, script>>

\* Lines 92-94 and 167-171: KEYDOWN K_r, and jitted_reset raises.
EvResetKeyRaises ==
    /\ pc = "events"
    /\ evCount < MaxEvents
    /\ raised' = "reset"
    /\ pc' = "exited"
    /\ exit_status' = 1
    /\ UNCHANGED <<display, locals, evCount, history, iteration, epCount, script>>

\* Lines 99-102 and 167-171: paused, and jitted_render or update_pygame raises.
PausedRenderRaises ==
    /\ pc = "pause_check"
    /\ pause
    /\ raised' = "render"
    /\ pc' = "exited"
    /\ exit_status' = 1
    /\ UNCHANGED <<display, locals, evCount, history, iteration, epCount, script>>

\* Lines 113-130 and 167-171: the action is translated, and jitted_step raises.
StepRaises ==
    /\ pc = "step"
    /\ pacman_action' = action_map_get(action)
    /\ raised' = "step"
    /\ pc' = "exited"
    /\ exit_status' = 1
    /\ UNCHANGED <<display, reset_counter, obs, state, running, pause, total_return,
                   action, reward, done, evCount, history, iteration, epCount,
                   script>>

\* Lines 141-145 and 167-171: done; the total is printed and zeroed, and
\* jitted_reset raises.
DoneResetRaises ==
    /\ pc = "done_check"
    /\ done
    /\ reports' = Append(reports, total_return)
    /\ total_return' = 0
    /\ raised' = "reset"
    /\ pc' = "exited"
    /\ exit_status' = 1
    /\ UNCHANGED <<display, reset_counter, obs, state, running, pause, action,
                   pacman_action, reward, done, evCount, nCalls, seedLog, lastCall,
                   rendered, doneStates, nSteps, nActions, prevReturn, iteration,
                   epCount, script>>

\* Lines 148-150 and 167-171: jitted_render or update_pygame raises.
RenderRaises ==
    /\ pc = "render"
    /\ raised' = "render"
    /\ pc' = "exited"
    /\ exit_status' = 1
    /\ UNCHANGED <<display, locals, evCount, history, iteration, epCount, script>>

Next ==
    \/ MakeEnv
    \/ MakeEnvFails
    \/ PygameInit
    \/ Start
    \/ WhileTest
    \/ EvQuit
    \/ EvEscape
    \/ EvPauseKey
    \/ EvResetKey
    \/ EvOther
    \/ EventsDone
    \/ PausedRender
    \/ GetAction
    \/ GetActionQuit
    \/ Step
    \/ DoneReset
    \/ NotDone
    \/ Render
    \/ PygameQuit
    \/ StartRaises
    \/ EvResetKeyRaises
    \/ PausedRenderRaises
    \/ StepRaises
    \/ DoneResetRaises
    \/ RenderRaises

Spec == Init /\ [][Next]_vars

(* ------------------- run_pacman.py: the scripted session -------------- *)

\* range(50) of line 52.
NumSteps == 50

\* Line 54 with the block of 10 steps left out.
ScriptedAction_NoBlocks(step) == (step % 4) + 1

\* Line 54: action = (step // 10) % 4 + 1.
ScriptedAction(step) == ((step \div 10) % 4) + 1

\* Lines 22-25: "pacman" is among jaxatari.list_available_games().
S_ListGames ==
    /\ s_pc = "list_games"
    /\ s_pc' = "make"
    /\ UNCHANGED <<s_step, s_action, s_state, s_total, s_done, s_exit, s_raised,
                   s_nResets, s_nSteps, s_actionLog, s_stepArgs, s_doneTags,
                   s_count, s_printed>>
    /\ UNCHANGED uiVars

\* Lines 25-27 and 92-93: "pacman" is not available; the error is printed and
\* main returns, so the process ends normally, with status 0.
S_GameMissing ==
    /\ s_pc = "list_games"
    /\ s_raised' = "unavailable"
    /\ s_pc' = "returned"
    /\ s_exit' = 0
    /\ UNCHANGED <<s_step, s_action, s_state, s_total, s_done,
                   s_nResets, s_nSteps, s_actionLog, s_stepArgs, s_doneTags,
                   s_count, s_printed>>
    /\ UNCHANGED uiVars

\* Lines 29-32: env = jaxatari.make("pacman") returns.
S_MakeEnv ==
    /\ s_pc = "make"
    /\ s_pc' = "reset"
    /\ UNCHANGED <<s_step, s_action, s_state, s_total, s_done, s_exit, s_raised,
                   s_nResets, s_nSteps, s_actionLog, s_stepArgs, s_doneTags,
                   s_count, s_printed>>
    /\ UNCHANGED uiVars

\* Lines 30 and 103-107: jaxatari.make raises; the module-level handler prints
\* the error and calls sys.exit(1).
S_MakeEnvRaises ==
    /\ s_pc = "make"
    /\ s_raised' = "make"
    /\ s_pc' = "exited"
    /\ s_exit' = 1
    /\ UNCHANGED <<s_step, s_action, s_state, s_total, s_done,
                   s_nResets, s_nSteps, s_actionLog, s_stepArgs, s_doneTags,
                   s_count, s_printed>>
    /\ UNCHANGED uiVars

\* Lines 34-51: obs, state = env.reset(PRNGKey(42)); total_reward = 0.0; the
\* for loop of line 52 starts at step 0.
S_Reset ==
    /\ s_pc = "reset"
    /\ s_nResets' = s_nResets + 1
    /\ s_state' = 1
    /\ s_total' = 0
    /\ s_step' = 0
    /\ s_pc' = "loop"
    /\ UNCHANGED <<s_action, s_done, s_exit, s_raised, s_nSteps, s_actionLog,
                   s_stepArgs, s_doneTags, s_count, s_printed>>
    /\ UNCHANGED uiVars

\* Lines 37 and 103-107: env.reset raises.
S_ResetRaises ==
    /\ s_pc = "reset"
    /\ s_nResets' = s_nResets + 1
    /\ s_raised' = "reset"
    /\ s_pc' = "exited"
    /\ s_exit' = 1
    /\ UNCHANGED <<s_step, s_action, s_state, s_total, s_done, s_nSteps,
                   s_actionLog, s_stepArgs, s_doneTags, s_count, s_printed>>
    /\ UNCHANGED uiVars

\* Lines 52-67 without the break of line 67.
S_Step_NoBreak ==
    /\ s_pc = "loop"
    /\ s_step < NumSteps
    /\ s_action' = ScriptedAction(s_step)
    /\ s_actionLog' = Append(s_actionLog, s_action')
    /\ s_stepArgs' = s_stepArgs \cup {s_state}
    /\ s_nSteps' = s_nSteps + 1
    /\ s_state' = s_state + 1
    /\ \E r \in Rewards, d \in BOOLEAN :
         /\ s_total' = s_total + r
         /\ s_count' = [s_count EXCEPT ![r] = @ + 1]
         /\ s_done' = d
         /\ s_doneTags' = IF d THEN s_doneTags \cup {s_state'} ELSE s_doneTags
    /\ s_step' = s_step + 1
    /\ UNCHANGED <<s_pc, s_exit, s_raised, s_nResets, s_printed>>
    /\ UNCHANGED uiVars

\* Lines 52-67, one iteration of the for loop: the action of this step index,
\* obs, state, reward, done, info = env.step(state, action), total_reward +=
\* float(reward), and break when done.  s_step is the position of the
\* range(50) iterator: the value the next iteration gives to `step`.
S_Step ==
    /\ s_pc = "loop"
    /\ s_step < NumSteps
    /\ s_action' = ScriptedAction(s_step)
    /\ s_actionLog' = Append(s_actionLog, s_action')
    /\ s_stepArgs' = s_stepArgs \cup {s_state}
    /\ s_nSteps' = s_nSteps + 1
    /\ s_state' = s_state + 1
    /\ \E r \in Rewards, d \in BOOLEAN :
         /\ s_total' = s_total + r
         /\ s_count' = [s_count EXCEPT ![r] = @ + 1]
         /\ s_done' = d
         /\ s_doneTags' = IF d THEN s_doneTags \cup {s_state'} ELSE s_doneTags
         /\ s_pc' = IF d THEN "report" ELSE "loop"
    /\ s_step' = s_step + 1
    /\ UNCHANGED <<s_exit, s_raised, s_nResets, s_printed>>
    /\ UNCHANGED uiVars

\* Lines 57 and 103-107: env.step raises.
S_StepRaises ==
    /\ s_pc = "loop"
    /\ s_step < NumSteps
    /\ s_action' = ScriptedAction(s_step)
    /\ s_raised' = "step"
    /\ s_pc' = "exited"
    /\ s_exit' = 1
    /\ UNCHANGED <<s_step, s_state, s_total, s_done, s_nResets, s_nSteps,
                   s_actionLog, s_stepArgs, s_doneTags, s_count, s_printed>>
    /\ UNCHANGED uiVars

\* Line 52: range(50) is exhausted.
S_LoopEnd ==
    /\ s_pc = "loop"
    /\ s_step = NumSteps
    /\ s_pc' = "report"
    /\ UNCHANGED <<s_step, s_action, s_state, s_total, s_done, s_exit, s_raised,
                   s_nResets, s_nSteps, s_actionLog, s_stepArgs, s_doneTags,
                   s_count, s_printed>>
    /\ UNCHANGED uiVars

\* Lines 69-72: print the total reward and the final score.
S_Report ==
    /\ s_pc = "report"
    /\ s_printed' = Append(s_printed, s_total)
    /\ s_pc' = "render_test"
    /\ UNCHANGED <<s_step, s_action, s_state, s_total, s_done, s_exit, s_raised,
                   s_nResets, s_nSteps, s_actionLog, s_stepArgs, s_doneTags,
                   s_count>>
    /\ UNCHANGED uiVars

\* Lines 74-93: env.render(state) returns; main returns, status 0.
S_RenderTest ==
    /\ s_pc = "render_test"
    /\ s_pc' = "returned"
    /\ s_exit' = 0
    /\ UNCHANGED <<s_step, s_action, s_state, s_total, s_done, s_raised,
                   s_nResets, s_nSteps, s_actionLog, s_stepArgs, s_doneTags,
                   s_count, s_printed>>
    /\ UNCHANGED uiVars

\* Lines 77-93: env.render raises; the handler of line 83 prints the error,
\* and main returns, status 0.
S_RenderTestRaises ==
    /\ s_pc = "render_test"
    /\ s_raised' = "render"
    /\ s_pc' = "returned"
    /\ s_exit' = 0
    /\ UNCHANGED <<s_step, s_action, s_state, s_total, s_done,
                   s_nResets, s_nSteps, s_actionLog, s_stepArgs, s_doneTags,
                   s_count, s_printed>>
    /\ UNCHANGED uiVars

ScriptNext ==
    \/ S_ListGames
    \/ S_GameMissing
    \/ S_MakeEnv
    \/ S_MakeEnvRaises
    \/ S_Reset
    \/ S_ResetRaises
    \/ S_Step
    \/ S_StepRaises
    \/ S_LoopEnd
    \/ S_Report
    \/ S_RenderTest
    \/ S_RenderTestRaises

\* The scripted session alone.
ScriptSpec == Init /\ [][ScriptNext]_vars

\* The scripted session as it runs: straight-line code, every call returns
\* or raises, so a step that can be taken is taken.
ScriptFairSpec == ScriptSpec /\ WF_vars(ScriptNext)

(* ------------------------------ claims -------------------------------- *)

\* The positions of main inside the while loop after the event loop: the
\* part of an iteration that advances the episode.
AdvancePcs == {"pause_check", "step", "done_check", "render"}

\* A key is given to jitted_reset in this step.
ResetCalled == Len(seedLog') = Len(seedLog) + 1

\* C1: the i-th reset of a run (start, R key or done) is given the key
\* fold_in(master_key, i - 1): the counter values used are 0, 1, 2, ... in
\* order, each once, and the keys given to reset are pairwise distinct.
C1_SeedsFromFreshCounters ==
    /\ Len(seedLog) = reset_counter
    /\ \A i \in 1..Len(seedLog) : seedLog[i] = fold_in(master_key, i - 1)
    /\ \A i, j \in 1..Len(seedLog) : i # j => seedLog[i] # seedLog[j]

\* A manual reset has just been handled in a run that also had an automatic one.
C1_Witness ==
    /\ pc = "events"
    /\ lastCall.op = "reset"
    /\ Len(reports) >= 1
    /\ Len(seedLog) >= 3

\* C2: every reset after the start (R key or done) leaves total_return = 0
\* and reset_counter one larger than it was.
C2_ResetZeroesAndIncrements ==
    [][(ResetCalled /\ pc # "start")
         => (total_return' = 0 /\ reset_counter' = reset_counter + 1)]_vars

\* An automatic reset after a positive total, in a run with a manual reset too.
C2_Witness ==
    /\ pc = "render"
    /\ lastCall.op = "reset"
    /\ Len(reports) >= 1
    /\ reports[Len(reports)] > 0
    /\ total_return = 0
    /\ reset_counter >= 3

\* C3: an iteration that finds pause true after the event loop goes straight
\* to the next iteration: nothing is stepped, no action is polled, state,
\* obs, total_return and reset_counter stay, and the unchanged state is
\* rendered (unless the render raises, which ends the run).
C3_PausedAdvanceRendersOnly ==
    [][(pc = "pause_check" /\ pause)
         => /\ UNCHANGED <<state, obs, total_return, reset_counter>>
            /\ UNCHANGED <<nSteps, nActions, nCalls>>
            /\ pc' \in {"while", "exited"}
            /\ pc' = "while" => lastCall' = RenderCall(state, nCalls)
            /\ pc' = "exited" => raised' = "render"]_vars

\* A paused iteration has ended in the middle of an episode.
C3_Witness ==
    /\ pc = "while"
    /\ pause
    /\ lastCall.op = "render"
    /\ nSteps >= 1
    /\ total_return > 0

\* C4 (as claimed): once running is False, the rest of the iteration polls no
\* action, steps nothing and leaves state and total_return as they are.
C4_StoppedAdvanceIsNoOp ==
    [][(pc \in AdvancePcs /\ ~running)
         => UNCHANGED <<state, total_return, nSteps, nActions>>]_vars

\* C5 (as claimed): every state returned by a step with done = True is given
\* to render before it is replaced.
C5_TerminalFrameRendered ==
    \A d \in doneStates : d = state \/ d \in rendered

\* C6: when the step returned done = True, the total printed is the total
\* before the step plus the step's reward; then, in the same iteration,
\* total_return is 0, reset_counter is one larger and state is the state
\* returned by a new reset (when that reset returns).
C6_DoneReportsThenResets ==
    [][(pc = "done_check" /\ done)
         => /\ reports' = Append(reports, prevReturn + reward)
            /\ total_return' = 0
            /\ pc' \in {"render", "exited"}
            /\ pc' = "render"
                 => /\ reset_counter' = reset_counter + 1
                    /\ ResetCalled
                    /\ nCalls' = nCalls + 1
                    /\ state' = nCalls']_vars

\* The scenario of the specification: total 10, a done step with reward 5.
C6_Witness ==
    /\ pc = "render"
    /\ done
    /\ prevReturn = 10
    /\ reward = 5
    /\ reports[Len(reports)] = 15
    /\ total_return = 0

\* C7: the action given to step is the table's image of the polled action,
\* NOOP (0) for every value outside the table, and always in 0..4.
C7_TranslationTable ==
    (nSteps > 0 /\ pc # "step")
      => /\ pacman_action \in 0..4
         /\ (action = 0 => pacman_action = 0)
         /\ (action = 2 => pacman_action = 1)
         /\ (action = 3 => pacman_action = 2)
         /\ (action = 4 => pacman_action = 3)
         /\ (action = 5 => pacman_action = 4)
         /\ (action \notin {0, 2, 3, 4, 5} => pacman_action = 0)

\* The value 99 has been polled and stepped with.
C7_Witness ==
    /\ pc = "done_check"
    /\ action = 99
    /\ pacman_action = 0

\* C8 (as claimed): right after start reset_counter is 0.
C8_StartLeavesCounterZero ==
    [][(pc = "start" /\ pc' = "while")
         => /\ reset_counter' = 0
            /\ seedLog' = <<fold_in(master_key, 0)>>
            /\ running' /\ ~pause' /\ total_return' = 0]_vars

\* C8 (amended): start gives reset the key of counter value 0, once, and
\* leaves running true, pause false, total_return 0 and reset_counter 1.
C8_StartLeavesCounterOne ==
    [][(pc = "start" /\ pc' = "while")
         => /\ reset_counter' = 1
            /\ seedLog' = <<fold_in(master_key, 0)>>
            /\ nCalls' = 1 /\ state' = 1
            /\ running' /\ ~pause' /\ total_return' = 0]_vars

\* Right after start: one reset, no event handled, no action polled.
C8_Witness ==
    /\ pc = "while"
    /\ nCalls = 1
    /\ nActions = 0
    /\ evCount = 0
    /\ running /\ ~pause
    /\ reset_counter = 1

\* C9: an unpaused iteration whose step returns done = False: the step adds
\* its reward to total_return and makes the returned state the current one;
\* reset_counter and pause are not touched, and the rest of the iteration
\* (the done test, the render) changes none of the four.
C9_NotDoneAdvance ==
    [][/\ (pc = "step" /\ pc' = "done_check")
            => /\ nSteps' = nSteps + 1
               /\ total_return' = total_return + reward'
               /\ state' = nCalls' /\ nCalls' = nCalls + 1
               /\ UNCHANGED <<reset_counter, pause>>
       /\ (pc \in {"done_check", "render"} /\ ~done)
            => UNCHANGED <<reset_counter, pause, total_return, state>>]_vars

\* Such an iteration has ended, on a total that was already positive.
C9_Witness ==
    /\ pc = "while"
    /\ ~done /\ ~pause
    /\ lastCall.op = "render"
    /\ nSteps >= 2
    /\ prevReturn > 0 /\ reward > 0
    /\ total_return = prevReturn + reward

\* C10: once started, state is the value most recently returned by reset or
\* step, and the last step or render call was given the value that was then
\* the most recently returned one.
C10_StateIsLatest ==
    /\ pc \notin {"make", "pygame_init", "start"} => state = nCalls
    /\ lastCall.op \in {"step", "render"} => lastCall.arg = lastCall.latest

\* The render that follows an automatic reset.
C10_Witness ==
    /\ pc = "while"
    /\ done
    /\ lastCall = RenderCall(nCalls, nCalls)
    /\ Len(reports) >= 1
    /\ rendered # 1..nCalls

\* The positions of main inside the while loop.
LoopPcs == {"while", "events", "pause_check", "step", "done_check", "render"}

\* C11 (as claimed): a render that raises inside the loop is caught: the loop
\* goes on to the next iteration, running and the session state as they were,
\* and the process does not end.
C11_RenderFailureNonFatal ==
    [][(pc \in {"pause_check", "render"} /\ raised = "none" /\ raised' = "render")
         => /\ pc' = "while"
            /\ exit_status' = -1
            /\ UNCHANGED <<running, state, total_return, reset_counter>>]_vars

\* C12 (as claimed): when the process ends after pygame.init, pygame.quit
\* has been called.
C12_DisplayReleasedOnExit ==
    (exit_status # -1 /\ display # "none") => display = "closed"

\* C13 (as claimed): when jaxatari.make fails, nothing is reset, stepped or
\* rendered, the loop is not entered, and the exit status is not 0.
C13_SetupFailureNonZero ==
    raised = "make"
      => /\ pc = "returned"
         /\ nCalls = 0 /\ nSteps = 0 /\ rendered = {} /\ lastCall.op = "none"
         /\ display = "none"
         /\ exit_status # 0

\* C14: once running is False (QUIT, ESC or SystemExit from the key poll),
\* paused or not, it stays False, and the loop test that follows leaves the
\* loop: no iteration begins with running False.
C14_StopIsFinal ==
    [][/\ (pc \in LoopPcs \cup {"quit", "returned", "exited"} /\ ~running) => ~running'
       /\ (pc = "while" /\ ~running) => pc' = "quit"
       /\ (pc = "while" /\ pc' = "events") => running]_vars

\* The loop has been left from a paused session.
C14_Witness ==
    /\ pc = "quit"
    /\ pause
    /\ ~running
    /\ nSteps >= 1

\* C16: pause is its value at the start of the iteration flipped once per P
\* key handled since (so two presses restore it), and an iteration that ends
\* paused has made exactly one render call, on the current state, which is
\* still the most recently returned one.
C16_PauseToggleAndPausedRender ==
    /\ pause = (IF pToggles % 2 = 0 THEN pauseAtPoll ELSE ~pauseAtPoll)
    /\ (pc = "while" /\ pause)
         => /\ iterRenders = 1
            /\ lastCall = RenderCall(state, nCalls)
            /\ state \in rendered

\* A paused iteration with two P presses has ended, still paused.
C16_Witness ==
    /\ pc = "while"
    /\ pause /\ pauseAtPoll
    /\ pToggles = 2
    /\ iterRenders = 1

\* C17: an R key press, paused or not, makes the reset's state and obs the
\* current ones, zeroes total_return, adds 1 to reset_counter and leaves
\* pause alone; and the step of an unpaused iteration in which R was
\* pressed is given the state that reset returned.
C17_ManualResetAnyTime ==
    [][/\ (pc = "events" /\ ResetCalled)
            => /\ nCalls' = nCalls + 1
               /\ state' = nCalls' /\ obs' = nCalls'
               /\ total_return' = 0
               /\ reset_counter' = reset_counter + 1
               /\ pause' = pause
       /\ (pc = "step" /\ lastCall.op = "reset" /\ pc' = "done_check")
            => lastCall' = StepCall(lastCall.latest + 1, lastCall.latest + 1)]_vars

\* R has just been handled in an iteration that began paused and still is,
\* in the middle of an episode.
C17_Witness ==
    /\ pc = "events"
    /\ pause /\ pauseAtPoll /\ pToggles = 0
    /\ lastCall.op = "reset"
    /\ nSteps >= 1
    /\ total_return = 0
    /\ state = nCalls

\* C18: at the loop test total_return is the sum of the rewards of the steps
\* made since the most recent reset (0 when there is none).
C18_ReturnIsEpisodeSum ==
    pc = "while" => total_return = WeightedSum(epCount, Rewards)

\* After a reset in the middle of a rewarded episode and one more rewarded step.
C18_Witness ==
    /\ pc = "while"
    /\ total_return = 5
    /\ prevReturn = 0
    /\ nSteps >= 2
    /\ reset_counter >= 2
    /\ Len(reports) + 1 < reset_counter

ScriptedRunShape ==
    /\ s_nResets <= 1
    /\ s_nSteps <= NumSteps
    /\ s_stepArgs \cap s_doneTags = {}
    /\ s_pc \in {"report", "render_test"} \/ s_printed # <<>>
         => /\ s_nResets = 1
            /\ s_doneTags = {} => s_nSteps = NumSteps
            /\ s_doneTags # {} => s_doneTags = {s_nSteps + 1}
            /\ s_total = WeightedSum(s_count, Rewards)
    /\ s_printed # <<>> => s_printed = <<WeightedSum(s_count, Rewards)>>

\* C19: the scripted session keeps that shape and always ends.
C19_ScriptedRunTerminates ==
    []ScriptedRunShape /\ <>(s_exit # -1)

\* The run ended after a done step before the 50th, with a positive total.
C19_Witness ==
    /\ s_pc = "returned"
    /\ s_raised = "none"
    /\ s_done
    /\ s_nSteps = 12
    /\ s_printed = <<15>>

=============================================================================
